---------------------------- MODULE Spec2Model ----------------------------
(***************************************************************************)
(* A model of bot.py: a Discord bot that accumulates, per user, the time   *)
(* spent in voice channels, the time spent streaming and the number of     *)
(* joins, keeps them in a JSON file and answers three slash commands.      *)
(*                                                                         *)
(* The state is the three module-level dictionaries of bot.py, the stats   *)
(* file, the wall clock read by time.time(), and the position of the       *)
(* process (not running, running before on_ready, running after it).      *)
(* Every coroutine of bot.py that touches the dictionaries has no await    *)
(* between its first and its last access to them, so each is one step.     *)
(*                                                                         *)
(* Instants are whole seconds.  time.time() is the wall clock: it may be   *)
(* set back between two steps.                                             *)
(***************************************************************************)
EXTENDS Integers, Sequences, FiniteSets, TLC

\* ------------------------------------------------------------- bounds
\* The clock takes the values 0..MaxTime.
MaxTime == 1
\* Voice-state events and slash commands handled over a whole behaviour
\* (all process runs together).
MaxHandled == 2

\* ------------------------------------------------------------ domains
Users == {1, 2}
Time == 0..MaxTime
\* VoiceState.channel: None, or a channel (only its presence is read,
\* its name goes to print alone).
None == "None"
Channels == {"general"}
ChannelOrNone == Channels \cup {None}
StatNames == {"call_time", "stream_time", "join_count"}

\* A dictionary is a function whose DOMAIN is its key set.
EmptyDict == << >>
Put(d, k, v) == (k :> v) @@ d
Pop(d, k) == [x \in (DOMAIN d) \ {k} |-> d[x]]
\* dict.get(k, default)
DictGet(d, k, default) == IF k \in DOMAIN d THEN d[k] ELSE default

\* The record get_user_stat and increment_user_stat create for a new user.
ZeroStats == [call_time |-> 0, stream_time |-> 0, join_count |-> 0]

\* ------------------------------------------------ keys of the JSON file
\* A JSON key is a string: a sequence of characters, each a number; the
\* digits are 0..9.

RECURSIVE str(_)
\* str(k) of a non-negative int: its decimal digits.
str(k) == IF k < 10 THEN <<k>> ELSE str(k \div 10) \o <<k % 10>>

IsIntLiteral(s) == Len(s) > 0 /\ \A i \in 1..Len(s) : s[i] \in 0..9

RECURSIVE int(_)
\* int(s) of a string of digits (leading zeros allowed, as in Python).
int(s) == IF Len(s) = 0 THEN 0
          ELSE 10 * int(SubSeq(s, 1, Len(s) - 1)) + s[Len(s)]

RECURSIVE SortedSeq(_)
SortedSeq(S) == IF S = {} THEN << >>
                ELSE LET m == CHOOSE x \in S : \A y \in S : x <= y
                     IN  <<m>> \o SortedSeq(S \ {m})

\* ------------------------------------------------------- the stats file
\* The file is missing, holds text that is not JSON (also: a file cut
\* short), holds a JSON value that is no object (a list, a number, null),
\* or holds a JSON object: its members in file order.
FileMissing == [kind |-> "missing"]
FileCorrupt == [kind |-> "corrupt"]
FileNonObject == [kind |-> "nonobject"]
FileObject(members) == [kind |-> "object", members |-> members]

RECURSIVE IntKeyed(_, _)
\* {int(k): v for k, v in user_stats.items()}: a later member replaces an
\* earlier one with the same int key.
IntKeyed(members, acc) ==
    IF members = << >> THEN acc
    ELSE IntKeyed(Tail(members), Put(acc, int(Head(members)[1]), Head(members)[2]))

\* A load_stats that skips the keys int() rejects and keeps the others.
load_stats_SkipsBadKeys(f) ==
    IF f.kind # "object" THEN EmptyDict
    ELSE IntKeyed(SelectSeq(f.members, LAMBDA mbr : IsIntLiteral(mbr[1])), EmptyDict)

\* load_stats(): the value of user_stats after the call.
load_stats(f) ==
    IF f.kind = "missing" THEN EmptyDict
    ELSE IF f.kind = "corrupt" THEN EmptyDict            \* json.JSONDecodeError
    ELSE IF f.kind = "nonobject" THEN EmptyDict          \* no .items(): AttributeError
    ELSE IF \E i \in 1..Len(f.members) : ~IsIntLiteral(f.members[i][1])
         THEN EmptyDict                                  \* ValueError, except Exception
    ELSE IntKeyed(f.members, EmptyDict)

\* A save_stats that writes an empty object.
save_stats_Nothing(us) == FileObject(<< >>)

\* A str(k) that keeps the last digit only.
save_stats_LastDigit(us) ==
    LET ks == SortedSeq(DOMAIN us)
    IN  FileObject([i \in 1..Len(ks) |-> << <<ks[i] % 10>>, us[ks[i]]>>])

\* save_stats(): the file after a completed call.  The members are written
\* in the dictionary's order; the keys str(k) are distinct, so the order
\* is not read back, and the model writes them by ascending id.
save_stats(us) ==
    LET ks == SortedSeq(DOMAIN us)
    IN  FileObject([i \in 1..Len(ks) |-> <<str(ks[i]), us[ks[i]]>>])

\* --------------------------------------------------- helper functions
\* A get_user_stat that stores a zero record whether the user has one or
\* not.
Materialize_Always(us, user_id) == Put(us, user_id, ZeroStats)

\* get_user_stat: the dictionary after the call (a missing user is added).
Materialize(us, user_id) ==
    IF user_id \notin DOMAIN us THEN Put(us, user_id, ZeroStats) ELSE us

\* get_user_stat: the value returned.
get_user_stat(us, user_id, stat_name) ==
    DictGet(Materialize(us, user_id)[user_id], stat_name, 0)

\* increment_user_stat: the dictionary after the call.
increment_user_stat(us, user_id, stat_name, value) ==
    LET current_value == get_user_stat(us, user_id, stat_name)
        us1 == Materialize(us, user_id)
    IN  [us1 EXCEPT ![user_id] = Put(us1[user_id], stat_name, current_value + value)]

\* A format_duration without the "if seconds < 0" line.
format_duration_Unclamped(seconds) == seconds

\* format_duration: the whole seconds the reply shows (int() of a whole
\* number of seconds is that number).
format_duration(seconds) == IF seconds < 0 THEN 0 ELSE seconds


\* -------------------------------------------------------------- state
VARIABLES
    proc,                \* "down", "starting" (bot.run, before on_ready), "ready"
    user_stats,          \* {user_id: {stat_name: value}}
    voice_join_times,    \* {user_id: join_timestamp}
    stream_start_times,  \* {user_id: stream_start_timestamp}
    stats_file,          \* the content of STATS_FILE
    clock,               \* what time.time() returns
    out,                 \* what the handler that ran last sent or raised
    handled,             \* voice-state events and commands handled so far
    ledger               \* bookkeeping of the sessions, kept beside the program

vars == <<proc, user_stats, voice_join_times, stream_start_times, stats_file,
          clock, out, handled, ledger>>

\* What a handler leaves behind: nothing, a followup message, an exception.
NoOut == [kind |-> "none"]
Reply(cmd, user, value, at) ==
    [kind |-> "reply", cmd |-> cmd, user |-> user, value |-> value, at |-> at]
Raised(exc) == [kind |-> "raised", exc |-> exc]

\* The committed value of a stat: a user without a record has 0.
Stat(us, u, stat_name) ==
    IF u \in DOMAIN us THEN DictGet(us[u], stat_name, 0) ELSE 0
CallTime(u) == Stat(user_stats, u, "call_time")
StreamTime(u) == Stat(user_stats, u, "stream_time")
JoinCount(u) == Stat(user_stats, u, "join_count")

\* ---------------------------------------------------------- the ledger
\* The ledger follows the sessions as the events define them; all but
\* its last member are kept without reading the program's dictionaries:
\*   base         each user's committed stats when user_stats was last
\*                assigned as a whole (module load, load_stats)
\*   call_open    start instant of the call session a join event opened
\*   stream_open  start instant of the stream session a stream-start opened
\*   call_sum     sum of (leave - join) over call sessions closed since base
\*   stream_sum   sum of (close - start) over stream sessions closed since base
\*   events       voice-state events handled since the process started
\*   joins        join events handled since base
\*   opens        events since base that gave the user an entry in
\*                voice_join_times when it had none
ZeroPerUser == [u \in Users |-> 0]
BaseOf(us) == [u \in Users |-> [s \in StatNames |-> Stat(us, u, s)]]
FreshLedger(us, l) ==
    [l EXCEPT !.base = BaseOf(us), !.call_sum = ZeroPerUser,
              !.stream_sum = ZeroPerUser, !.joins = ZeroPerUser,
              !.opens = ZeroPerUser]
StartLedger ==
    [base |-> BaseOf(EmptyDict), events |-> 0,
     call_open |-> EmptyDict, stream_open |-> EmptyDict,
     call_sum |-> ZeroPerUser, stream_sum |-> ZeroPerUser,
     joins |-> ZeroPerUser, opens |-> ZeroPerUser]

\* ------------------------------------------------------ initial state
\* The stats file a first run may find: none, or one an earlier run left
\* (user 1 with a record that has no stream_time member).
InitFiles ==
    { FileMissing,
      FileObject(<< <<str(1), [call_time |-> 1, join_count |-> 1]>> >>) }

Init ==
    /\ proc = "down"
    /\ user_stats = EmptyDict
    /\ voice_join_times = EmptyDict
    /\ stream_start_times = EmptyDict
    /\ stats_file \in InitFiles
    /\ clock \in Time
    /\ out = NoOut
    /\ handled = 0
    /\ ledger = StartLedger


\* ------------------------------------------------ on_voice_state_update
\* The handler works on m = [us, vjt, sst, exc]: the three dictionaries
\* and the exception raised, if any ("" for none).
Mem(us, vjt, sst) == [us |-> us, vjt |-> vjt, sst |-> sst, exc |-> ""]

\* A leave that pops the entry and returns before the time is added.
CloseCall_PopsOnly(m, user_id, now) ==
    IF user_id \in DOMAIN m.vjt
    THEN [m EXCEPT !.vjt = Pop(m.vjt, user_id)]
    ELSE m

\* A leave that pops with a default, voice_join_times.pop(user_id, 0),
\* and credits also when there was no entry.
CloseCall_DefaultStart(m, user_id, now) ==
    [m EXCEPT !.vjt = Pop(m.vjt, user_id),
              !.us = increment_user_stat(m.us, user_id, "call_time",
                                         now - DictGet(m.vjt, user_id, 0))]

\* A leave that adds time.time() and not time.time() - join_time.
CloseCall_AddsNow(m, user_id, now) ==
    IF user_id \in DOMAIN m.vjt
    THEN [m EXCEPT !.vjt = Pop(m.vjt, user_id),
                   !.us = increment_user_stat(m.us, user_id, "call_time", now)]
    ELSE m

\* "if user_id in voice_join_times": pop the entry, add now - join_time.
CloseCall(m, user_id, now) ==
    IF user_id \in DOMAIN m.vjt
    THEN [m EXCEPT !.vjt = Pop(m.vjt, user_id),
                   !.us = increment_user_stat(m.us, user_id, "call_time",
                                              now - m.vjt[user_id])]
    ELSE m

\* A stream close that reads the entry (stream_start_times[user_id]) and
\* leaves it in the dictionary.
CloseStream_KeepsEntry(m, user_id, now) ==
    IF user_id \in DOMAIN m.sst
    THEN [m EXCEPT !.us = increment_user_stat(m.us, user_id, "stream_time",
                                              now - m.sst[user_id])]
    ELSE m

\* "if user_id in stream_start_times": pop the entry, add now - start_time.
CloseStream(m, user_id, now) ==
    IF user_id \in DOMAIN m.sst
    THEN [m EXCEPT !.sst = Pop(m.sst, user_id),
                   !.us = increment_user_stat(m.us, user_id, "stream_time",
                                              now - m.sst[user_id])]
    ELSE m

\* A join branch that counts the join only when the user has no entry in
\* voice_join_times.
JoinLeaveTracking_CountsOpenings(m, user_id, bc, ac, now) ==
    IF bc = None /\ ac # None
    THEN [m EXCEPT !.vjt = Put(m.vjt, user_id, now),
                   !.us = IF user_id \in DOMAIN m.vjt THEN m.us
                          ELSE increment_user_stat(m.us, user_id, "join_count", 1)]
    ELSE IF bc # None /\ ac = None
    THEN CloseStream(CloseCall(m, user_id, now), user_id, now)
    ELSE m

\* --- Join/Leave Tracking ---
JoinLeaveTracking(m, user_id, bc, ac, now) ==
    IF bc = None /\ ac # None
    THEN [m EXCEPT !.vjt = Put(m.vjt, user_id, now),
                   !.us = increment_user_stat(m.us, user_id, "join_count", 1)]
    ELSE IF bc # None /\ ac = None
    THEN CloseStream(CloseCall(m, user_id, now), user_id, now)
    ELSE m

\* A stream-stop branch without "and after.channel is not None".
StreamingTracking_StopAnywhere(m, user_id, bs, as, ac, now) ==
    IF ~bs /\ as
    THEN IF ac = None
         THEN [m EXCEPT !.exc = "AttributeError"]
         ELSE [m EXCEPT !.sst = Put(m.sst, user_id, now)]
    ELSE IF bs /\ ~as
    THEN CloseStream(m, user_id, now)
    ELSE m

\* A stream-start branch taken whenever after.self_stream holds.
StreamingTracking_Restamps(m, user_id, bs, as, ac, now) ==
    IF as
    THEN IF ac = None
         THEN [m EXCEPT !.exc = "AttributeError"]
         ELSE [m EXCEPT !.sst = Put(m.sst, user_id, now)]
    ELSE IF bs /\ ~as /\ ac # None
    THEN CloseStream(m, user_id, now)
    ELSE m

\* --- Streaming Tracking ---
\* The print of the stream-start branch reads after.channel.name before
\* the entry is stored: with after.channel None it raises AttributeError
\* and the handler ends there.
StreamingTracking(m, user_id, bs, as, ac, now) ==
    IF ~bs /\ as
    THEN IF ac = None
         THEN [m EXCEPT !.exc = "AttributeError"]
         ELSE [m EXCEPT !.sst = Put(m.sst, user_id, now)]
    ELSE IF bs /\ ~as /\ ac # None
    THEN CloseStream(m, user_id, now)
    ELSE m

\* The whole handler.
on_voice_state_update(m, user_id, bc, ac, bs, as, now) ==
    StreamingTracking(JoinLeaveTracking(m, user_id, bc, ac, now),
                      user_id, bs, as, ac, now)

\* The ledger after the same event, by the rules of the sessions: a join
\* event opens a call session, a leave event closes the open call and
\* stream sessions, a stream-start event opens a stream session, a
\* stream-stop event with the user still in a channel closes it.
LedgerCloseCall(l, u, now) ==
    IF u \in DOMAIN l.call_open
    THEN [l EXCEPT !.call_open = Pop(l.call_open, u),
                   !.call_sum[u] = @ + (now - l.call_open[u])]
    ELSE l
LedgerCloseStream(l, u, now) ==
    IF u \in DOMAIN l.stream_open
    THEN [l EXCEPT !.stream_open = Pop(l.stream_open, u),
                   !.stream_sum[u] = @ + (now - l.stream_open[u])]
    ELSE l
LedgerCallKind(l, u, bc, ac, now) ==
    IF bc = None /\ ac # None
    THEN [l EXCEPT !.call_open = Put(l.call_open, u, now), !.joins[u] = @ + 1]
    ELSE IF bc # None /\ ac = None
    THEN LedgerCloseStream(LedgerCloseCall(l, u, now), u, now)
    ELSE l
LedgerStreamKind(l, u, bs, as, ac, now) ==
    IF ~bs /\ as
    THEN [l EXCEPT !.stream_open = Put(l.stream_open, u, now)]
    ELSE IF bs /\ ~as /\ ac # None
    THEN LedgerCloseStream(l, u, now)
    ELSE l
LedgerEvent(l, u, bc, ac, bs, as, now) ==
    LedgerStreamKind(LedgerCallKind([l EXCEPT !.events = @ + 1], u, bc, ac, now),
                     u, bs, as, ac, now)

\* One voice-state event for member u, with the before and after
\* VoiceState (channel, self_stream), handled at the instant clock.
OnVoiceStateUpdate(u, bc, ac, bs, as) ==
    /\ proc \in {"starting", "ready"}
    /\ handled < MaxHandled
    /\ LET m == on_voice_state_update(
                    Mem(user_stats, voice_join_times, stream_start_times),
                    u, bc, ac, bs, as, clock)
           l == LedgerEvent(ledger, u, bc, ac, bs, as, clock)
       IN  /\ user_stats' = m.us
           /\ voice_join_times' = m.vjt
           /\ stream_start_times' = m.sst
           /\ out' = IF m.exc = "" THEN NoOut ELSE Raised(m.exc)
           /\ ledger' = IF u \notin DOMAIN voice_join_times /\ u \in DOMAIN m.vjt
                        THEN [l EXCEPT !.opens[u] = @ + 1]
                        ELSE l
    /\ handled' = handled + 1
    /\ UNCHANGED <<proc, stats_file, clock>>

VoiceEvent ==
    \E u \in Users, bc \in ChannelOrNone, ac \in ChannelOrNone,
       bs \in BOOLEAN, as \in BOOLEAN :
        OnVoiceStateUpdate(u, bc, ac, bs, as)


\* ------------------------------------------------------- slash commands
\* A calltime that reads the start with voice_join_times.get(user.id, 0).
calltime_total_DefaultStart(us, vjt, u, now) ==
    get_user_stat(us, u, "call_time") + (now - DictGet(vjt, u, 0))

\* total_seconds of calltime: the committed value plus, with an entry in
\* voice_join_times, time.time() - voice_join_times[user.id].
calltime_total(us, vjt, u, now) ==
    get_user_stat(us, u, "call_time")
        + (IF u \in DOMAIN vjt THEN now - vjt[u] ELSE 0)

streamtime_total(us, sst, u, now) ==
    get_user_stat(us, u, "stream_time")
        + (IF u \in DOMAIN sst THEN now - sst[u] ELSE 0)

\* What calltime (streamtime) replies for user u in the current state.
calltime_reply(u) ==
    format_duration(calltime_total(user_stats, voice_join_times, u, clock))
streamtime_reply(u) ==
    format_duration(streamtime_total(user_stats, stream_start_times, u, clock))

\* /calltime user: get_user_stat adds a record for an unknown user.
calltime(u) ==
    /\ proc \in {"starting", "ready"}
    /\ handled < MaxHandled
    /\ handled' = handled + 1
    /\ user_stats' = Materialize(user_stats, u)
    /\ out' = Reply("calltime", u, calltime_reply(u), clock)
    /\ UNCHANGED <<proc, voice_join_times, stream_start_times, stats_file,
                   clock, ledger>>

\* /streamtime user
streamtime(u) ==
    /\ proc \in {"starting", "ready"}
    /\ handled < MaxHandled
    /\ handled' = handled + 1
    /\ user_stats' = Materialize(user_stats, u)
    /\ out' = Reply("streamtime", u, streamtime_reply(u), clock)
    /\ UNCHANGED <<proc, voice_join_times, stream_start_times, stats_file,
                   clock, ledger>>

\* /joincount user
joincount(u) ==
    /\ proc \in {"starting", "ready"}
    /\ handled < MaxHandled
    /\ handled' = handled + 1
    /\ user_stats' = Materialize(user_stats, u)
    /\ out' = Reply("joincount", u, get_user_stat(user_stats, u, "join_count"), clock)
    /\ UNCHANGED <<proc, voice_join_times, stream_start_times, stats_file,
                   clock, ledger>>

Query == \E u \in Users : calltime(u) \/ streamtime(u) \/ joincount(u)

\* ---------------------------------------------------- process lifecycle
\* python bot.py: the module-level dictionaries are empty and bot.run
\* starts (TOKEN is not 'YOUR_BOT_TOKEN').
Start ==
    /\ proc = "down"
    /\ proc' = "starting"
    /\ user_stats' = EmptyDict
    /\ voice_join_times' = EmptyDict
    /\ stream_start_times' = EmptyDict
    /\ out' = NoOut
    /\ ledger' = StartLedger
    /\ UNCHANGED <<stats_file, clock, handled>>

\* on_ready: load_stats(), then save_stats_task.start().  discord.py calls
\* on_ready again after a reconnect that could not resume; Loop.start()
\* of a task that is running raises RuntimeError, after load_stats has run.
on_ready ==
    /\ proc \in {"starting", "ready"}
    /\ user_stats' = load_stats(stats_file)
    /\ out' = IF proc = "ready" THEN Raised("RuntimeError") ELSE NoOut
    /\ proc' = "ready"
    /\ ledger' = FreshLedger(load_stats(stats_file), ledger)
    /\ UNCHANGED <<voice_join_times, stream_start_times, stats_file, clock, handled>>

\* save_stats_task: every SAVE_INTERVAL_SECONDS once started.
save_stats_task ==
    /\ proc = "ready"
    /\ stats_file' = save_stats(user_stats)
    /\ UNCHANGED <<proc, user_stats, voice_join_times, stream_start_times,
                   clock, out, handled, ledger>>

\* bot.run returns or raises (login failure, Ctrl-C, any error): the
\* finally clause runs save_stats() and the process ends.
Shutdown ==
    /\ proc \in {"starting", "ready"}
    /\ stats_file' = save_stats(user_stats)
    /\ proc' = "down"
    /\ user_stats' = EmptyDict
    /\ voice_join_times' = EmptyDict
    /\ stream_start_times' = EmptyDict
    /\ out' = NoOut
    /\ ledger' = StartLedger
    /\ UNCHANGED <<clock, handled>>

\* The process is killed (or the machine stops) outside save_stats.
Crash ==
    /\ proc \in {"starting", "ready"}
    /\ proc' = "down"
    /\ user_stats' = EmptyDict
    /\ voice_join_times' = EmptyDict
    /\ stream_start_times' = EmptyDict
    /\ out' = NoOut
    /\ ledger' = StartLedger
    /\ UNCHANGED <<stats_file, clock, handled>>

\* The process is killed inside save_stats, after open(STATS_FILE, 'w')
\* has emptied the file and before json.dump has written all of it: what
\* is left is no JSON text.  save_stats runs in the periodic task and in
\* the finally clause.
CrashInSave ==
    /\ proc \in {"starting", "ready"}
    /\ stats_file' = FileCorrupt
    /\ proc' = "down"
    /\ user_stats' = EmptyDict
    /\ voice_join_times' = EmptyDict
    /\ stream_start_times' = EmptyDict
    /\ out' = NoOut
    /\ ledger' = StartLedger
    /\ UNCHANGED <<clock, handled>>

\* ---------------------------------------------------------- the clock
\* Time passes.
ClockAdvance ==
    /\ \E t \in Time : t > clock /\ clock' = t
    /\ UNCHANGED <<proc, user_stats, voice_join_times, stream_start_times,
                   stats_file, out, handled, ledger>>

\* The wall clock is set back (time.time() is not monotonic).
ClockStepBack ==
    /\ \E t \in Time : t < clock /\ clock' = t
    /\ UNCHANGED <<proc, user_stats, voice_join_times, stream_start_times,
                   stats_file, out, handled, ledger>>

Next ==
    \/ Start
    \/ on_ready
    \/ VoiceEvent
    \/ Query
    \/ save_stats_task
    \/ Shutdown
    \/ Crash
    \/ CrashInSave
    \/ ClockAdvance
    \/ ClockStepBack

Spec == Init /\ [][Next]_vars

\* The same program with the periodic save scheduled fairly: tasks.loop
\* runs save_stats_task every SAVE_INTERVAL_SECONDS from on_ready on, so a
\* save that stays possible is taken.
LiveSpec == Init /\ [][Next]_vars /\ WF_vars(save_stats_task)


\* ------------------------------------------- storage: load and save alone
\* The functions load_stats and save_stats on a wider set of inputs than
\* the events of Spec produce: user ids of one, two and three digits,
\* every record over the values 0 and 1, and every kind of file content.
Ids == {1, 12, 305}
Records == [call_time : 0..1, stream_time : 0..1, join_count : 0..1]
Mappings == UNION { [S -> Records] : S \in SUBSET Ids }

\* The key "1x": a digit and a character that is no digit.
BadKey == <<1, 10>>

\* What a starting process may find as STATS_FILE.
Files ==
    InitFiles \cup
    { FileCorrupt,
      FileNonObject,
      FileObject(<< <<BadKey, ZeroStats>> >>),
      FileObject(<< <<str(12), ZeroStats>>, <<BadKey, ZeroStats>> >>),
      \* the keys "01" and "1": the same int
      FileObject(<< << <<0, 1>>, ZeroStats >>,
                    << <<1>>, [call_time |-> 1, stream_time |-> 0, join_count |-> 1] >> >>) }

\* Either no process runs and the file is any of Files, or a process that
\* found no file is ready with a mapping its events have left, not saved
\* yet (the ledger shows the mapping as sessions closed and joins counted
\* since an empty load).
FileInit ==
    /\ voice_join_times = EmptyDict
    /\ stream_start_times = EmptyDict
    /\ clock = 0
    /\ out = NoOut
    /\ handled = 0
    /\ \/ /\ proc = "down"
          /\ user_stats = EmptyDict
          /\ stats_file \in Files
          /\ ledger = StartLedger
       \/ /\ proc = "ready"
          /\ user_stats \in Mappings
          /\ stats_file = FileMissing
          /\ ledger = [StartLedger EXCEPT
                          !.call_sum = [u \in Users |-> Stat(user_stats, u, "call_time")],
                          !.stream_sum = [u \in Users |-> Stat(user_stats, u, "stream_time")],
                          !.joins = [u \in Users |-> Stat(user_stats, u, "join_count")],
                          !.opens = [u \in Users |-> Stat(user_stats, u, "join_count")]]

\* save_stats_task when the write fails: open(STATS_FILE, 'w') raises and
\* the file is as it was, or it succeeds (the file is emptied) and
\* json.dump or the closing of the file raises (disk full).  The
\* exception is caught by "except Exception" and printed; the task goes on.
save_stats_fails ==
    /\ proc = "ready"
    /\ stats_file' \in {stats_file, FileCorrupt}
    /\ UNCHANGED <<proc, user_stats, voice_join_times, stream_start_times,
                   clock, out, handled, ledger>>

FileNext ==
    \/ Start
    \/ on_ready
    \/ save_stats_task
    \/ save_stats_fails
    \/ Shutdown
    \/ Crash
    \/ CrashInSave

FileSpec == FileInit /\ [][FileNext]_vars


\* =============================================================== claims
Running == proc \in {"starting", "ready"}
Base(u, stat_name) == ledger.base[u][stat_name]

\* C1: for every user, committed call_time equals its value when
\* user_stats was last loaded plus the sum of (leave instant - join
\* instant) over the call sessions a join event opened and a leave event
\* closed since; the ledger's sum moves at no other step, so nothing else
\* changes call_time.
C1_CallTimeIsSumOfClosedSessions ==
    \A u \in Users : CallTime(u) = Base(u, "call_time") + ledger.call_sum[u]

\* C1 witness: a call session of positive length was closed for a user
\* whose loaded call_time was not zero.
C1_Witness ==
    \E u \in Users :
        /\ proc = "ready"
        /\ Base(u, "call_time") > 0
        /\ ledger.call_sum[u] > 0
        /\ CallTime(u) = Base(u, "call_time") + ledger.call_sum[u]

\* C2 as claimed: join_count minus its loaded value is the number of
\* events that gave the user an entry in voice_join_times when it had
\* none (a join event for an open session adds nothing).
C2_JoinCountIsClosedToOpenCount ==
    \A u \in Users : JoinCount(u) = Base(u, "join_count") + ledger.opens[u]

\* C2 amended: join_count minus its loaded value is the number of join
\* events (before.channel None, after.channel not None) handled since,
\* whether or not the user had an entry in voice_join_times.
C2_JoinCountIsJoinEventCount ==
    \A u \in Users : JoinCount(u) = Base(u, "join_count") + ledger.joins[u]

\* C2 witness: a join event was handled for a user whose call session was
\* already open, and was counted.
C2_Witness ==
    \E u \in Users :
        /\ ledger.joins[u] = 2
        /\ ledger.opens[u] = 1
        /\ JoinCount(u) = Base(u, "join_count") + 2

\* C3: committed call_time and stream_time are never negative, also when
\* the clock was set back between a session's start and its close.
C3_DurationsNonNegative ==
    \A u \in Users : CallTime(u) >= 0 /\ StreamTime(u) >= 0


\* A step in which a slash command was handled.
QueryStep == Running /\ out'.kind = "reply" /\ handled' = handled + 1

\* C4 as claimed: a query leaves user_stats, voice_join_times and
\* stream_start_times as they were, so a later save writes the same file.
C4_QueryChangesNothing ==
    [][QueryStep =>
          /\ UNCHANGED <<user_stats, voice_join_times, stream_start_times>>
          /\ save_stats(user_stats') = save_stats(user_stats)]_vars

\* C4 amended: a query leaves voice_join_times and stream_start_times as
\* they were and every record of user_stats as it was; it adds an all-zero
\* record for the queried user when that user had none, which changes no
\* committed value (a missing record counts as zero) but is written by a
\* later save.
C4_QueryOnlyMaterializes ==
    [][QueryStep =>
          /\ UNCHANGED <<voice_join_times, stream_start_times>>
          /\ DOMAIN user_stats' = DOMAIN user_stats \cup {out'.user}
          /\ \A u \in DOMAIN user_stats : user_stats'[u] = user_stats[u]
          /\ out'.user \notin DOMAIN user_stats =>
                 /\ user_stats'[out'.user] =
                        [call_time |-> 0, stream_time |-> 0, join_count |-> 0]
                 /\ save_stats(user_stats') # save_stats(user_stats)
          /\ \A u \in Users, s \in StatNames :
                 Stat(user_stats', u, s) = Stat(user_stats, u, s)]_vars

\* C4 witness: a query was answered for a user that had no record (the
\* only handler run so far, in a process that has not loaded the file).
C4_Witness ==
    /\ proc = "starting"
    /\ handled = 1
    /\ out.kind = "reply"
    /\ user_stats = (out.user :> [call_time |-> 0, stream_time |-> 0, join_count |-> 0])

\* C5: one leave event for a user whose call session and stream session
\* are both open removes both entries and adds (now - call start) to
\* call_time and (now - stream start) to stream_time.
C5_LeaveClosesBoth ==
    (Running /\ handled < MaxHandled) =>
    \A u \in DOMAIN voice_join_times \cap DOMAIN stream_start_times,
       bc \in Channels, bs \in BOOLEAN, as \in BOOLEAN :
        LET m == on_voice_state_update(
                     Mem(user_stats, voice_join_times, stream_start_times),
                     u, bc, None, bs, as, clock)
        IN  /\ u \notin DOMAIN m.vjt
            /\ u \notin DOMAIN m.sst
            /\ get_user_stat(m.us, u, "call_time")
                   = CallTime(u) + (clock - voice_join_times[u])
            /\ get_user_stat(m.us, u, "stream_time")
                   = StreamTime(u) + (clock - stream_start_times[u])

\* C5 witness: two events were handled, the first opened both sessions of
\* a user and the second, a leave, closed both with a positive credit.
C5_Witness ==
    \E u \in Users :
        /\ ledger.events = 2
        /\ u \notin DOMAIN voice_join_times
        /\ u \notin DOMAIN stream_start_times
        /\ CallTime(u) - Base(u, "call_time") > 0
        /\ StreamTime(u) - Base(u, "stream_time") > 0

\* C6: for every user, committed stream_time equals its loaded value plus
\* the sum of (close instant - start instant) over the stream sessions a
\* stream-start event opened and a stream-stop event (user still in a
\* channel) or a leave event closed.
C6_StreamTimeIsSumOfClosedSessions ==
    \A u \in Users : StreamTime(u) = Base(u, "stream_time") + ledger.stream_sum[u]


\* The last handler was the command cmd for user u, and nothing the
\* command read has changed since but the clock.
Answered(cmd, u) == out.kind = "reply" /\ out.cmd = cmd /\ out.user = u

\* C7 as claimed: with an open session the reply of calltime (streamtime)
\* is the committed value plus (now - start instant), and that is at
\* least the committed value.
C7_OpenSessionReplyIsCommittedPlusElapsed ==
    \A u \in Users :
        /\ (Answered("calltime", u) /\ u \in DOMAIN voice_join_times /\ out.at = clock)
              => /\ out.value = CallTime(u) + (clock - voice_join_times[u])
                 /\ out.value >= CallTime(u)
        /\ (Answered("streamtime", u) /\ u \in DOMAIN stream_start_times /\ out.at = clock)
              => /\ out.value = StreamTime(u) + (clock - stream_start_times[u])
                 /\ out.value >= StreamTime(u)

\* The whole seconds a duration is shown as: negative durations as zero.
Shown(seconds) == IF seconds < 0 THEN 0 ELSE seconds

\* C7 amended: with an open session the reply of calltime (streamtime) is
\* committed + (now - start instant) shown as whole seconds and as zero
\* when negative; when now is not before the start instant it is at least
\* the committed value shown alone; after a reply to a duration command,
\* with no event since and the clock not before the instant of that
\* reply, the same command for the same user replies no less; joincount
\* replies the committed count.
C7_ReplyIsShownCommittedPlusElapsed ==
    \A u \in Users :
        /\ (Answered("calltime", u) /\ u \in DOMAIN voice_join_times /\ out.at = clock)
              => /\ out.value = Shown(CallTime(u) + (clock - voice_join_times[u]))
                 /\ clock >= voice_join_times[u] => out.value >= Shown(CallTime(u))
        /\ (Answered("streamtime", u) /\ u \in DOMAIN stream_start_times /\ out.at = clock)
              => /\ out.value = Shown(StreamTime(u) + (clock - stream_start_times[u]))
                 /\ clock >= stream_start_times[u] => out.value >= Shown(StreamTime(u))
        /\ (Answered("calltime", u) /\ clock >= out.at) => calltime_reply(u) >= out.value
        /\ (Answered("streamtime", u) /\ clock >= out.at) => streamtime_reply(u) >= out.value
        /\ Answered("joincount", u) => out.value = JoinCount(u)

\* C7 witness: calltime was answered for a user with an open call
\* session, time has passed since, and the next reply is larger than that
\* one and than the committed value.
C7_Witness ==
    \E u \in Users :
        /\ Answered("calltime", u)
        /\ u \in DOMAIN voice_join_times
        /\ clock > out.at
        /\ calltime_reply(u) > out.value
        /\ calltime_reply(u) > CallTime(u)

\* C8: in every state where a running process can take an event (the
\* guard of OnVoiceStateUpdate holds), for every event it may be given:
\* an event whose before and after agree on being in a channel leaves
\* voice_join_times, call_time and join_count as they are; an event whose
\* before and after agree on streaming, and that is no leave, leaves
\* stream_start_times and stream_time as they are; an event adds to
\* call_time (stream_time) at most the length of the one entry it removes
\* from voice_join_times (stream_start_times), so no interval is added
\* twice.  (A dictionary has one entry per key: a user has at most one
\* open entry of each kind.)
C8_RedundantEventsChangeNothing ==
    (Running /\ handled < MaxHandled) =>
    \A u \in Users, bc \in ChannelOrNone, ac \in ChannelOrNone,
       bs \in BOOLEAN, as \in BOOLEAN :
        LET m == on_voice_state_update(
                     Mem(user_stats, voice_join_times, stream_start_times),
                     u, bc, ac, bs, as, clock)
        IN  /\ ((bc = None) <=> (ac = None)) =>
                  /\ m.vjt = voice_join_times
                  /\ \A v \in Users :
                        /\ Stat(m.us, v, "call_time") = CallTime(v)
                        /\ Stat(m.us, v, "join_count") = JoinCount(v)
            /\ ((bs <=> as) /\ ~(bc # None /\ ac = None)) =>
                  /\ m.sst = stream_start_times
                  /\ \A v \in Users : Stat(m.us, v, "stream_time") = StreamTime(v)
            /\ \A v \in Users :
                  /\ Stat(m.us, v, "call_time") # CallTime(v) =>
                        /\ v = u
                        /\ v \in DOMAIN voice_join_times
                        /\ v \notin DOMAIN m.vjt
                        /\ Stat(m.us, v, "call_time")
                               = CallTime(v) + (clock - voice_join_times[v])
                  /\ Stat(m.us, v, "stream_time") # StreamTime(v) =>
                        /\ v = u
                        /\ v \in DOMAIN stream_start_times
                        /\ v \notin DOMAIN m.sst
                        /\ Stat(m.us, v, "stream_time")
                               = StreamTime(v) + (clock - stream_start_times[v])

\* C8 witness: a user has both sessions open, started earlier, with
\* committed values and a join counted: the state a redundant event is to
\* leave alone; and one was handled, for the two events of this run left
\* no other trace.
C8_Witness ==
    \E u \in Users :
        /\ ledger.events = 2
        /\ handled = 2
        /\ DOMAIN voice_join_times = {u}
        /\ DOMAIN stream_start_times = {u}
        /\ voice_join_times[u] < clock
        /\ stream_start_times[u] < clock
        /\ DOMAIN user_stats = {u}
        /\ JoinCount(u) = Base(u, "join_count") + 1
        /\ out = NoOut

\* C9: whenever the process ends, by a crash at any point or by a
\* shutdown, what a restart loads is the mapping of the last completed
\* save or the mapping in memory at that moment: statistics committed by
\* an earlier save are never lost.
C9_CrashLosesOnlyUnsavedIncrements ==
    [][(Running /\ proc' = "down") =>
          load_stats(stats_file') \in {load_stats(stats_file), user_stats}]_vars

\* C10: within one process lifetime user_stats is never reset: no step of
\* a running process lowers a user's join_count (an increment applied by
\* an event is not discarded by a later load_stats).
C10_NoIncrementDiscarded ==
    [][(Running /\ proc' # "down") =>
          \A u \in Users : JoinCount(u)' >= JoinCount(u)]_vars

\* C11: the mapping load_stats reads from the file a completed save_stats
\* of user_stats wrote is user_stats: the same integer keys (of one, two
\* and three digits) with the same records.
C11_SaveThenLoadIsIdentity ==
    load_stats(save_stats(user_stats)) = user_stats

\* C11 witness: a process is ready with the users 1, 12 and 305, not all
\* zero, that on_ready has loaded (the ledger's base shows the load) from
\* a file save_stats wrote (no file of Files names 305), and the file is
\* what save_stats writes for the loaded mapping.
C11_Witness ==
    /\ proc = "ready"
    /\ DOMAIN user_stats = {1, 12, 305}
    /\ user_stats[1].join_count = 1
    /\ user_stats[12].stream_time = 1
    /\ user_stats[305].call_time = 1
    /\ ledger.base[1]["join_count"] = 1
    /\ stats_file = save_stats(user_stats)

\* A file load_stats cannot use: missing, no JSON, no JSON object, or an
\* object with a key that int() rejects.
BadFile(f) ==
    \/ f.kind # "object"
    \/ \E i \in 1..Len(f.members) : ~IsIntLiteral(f.members[i][1])

\* C12: an on_ready that finds such a file leaves user_stats empty, and a
\* first on_ready of a process raises nothing.
C12_LoadOfBadFileIsEmpty ==
    [][(on_ready /\ BadFile(stats_file))
          => /\ user_stats' = EmptyDict
             /\ proc = "starting" => out' = NoOut]_vars

\* C12 witness: a process is ready with an empty mapping beside a file
\* whose second key is "1x".
C12_Witness ==
    /\ proc = "ready"
    /\ stats_file.kind = "object"
    /\ Len(stats_file.members) = 2
    /\ stats_file.members[2][1] = BadKey
    /\ user_stats = EmptyDict
    /\ out = NoOut

\* C13: a save whose write fails leaves user_stats, voice_join_times and
\* stream_start_times as they were and raises nothing; the process stays
\* ready, so the task runs again, and what a completed save then writes
\* holds the whole mapping.
C13_FailedSaveChangesNoMemory ==
    [][save_stats_fails
          => /\ UNCHANGED <<user_stats, voice_join_times, stream_start_times, out>>
             /\ proc' = "ready"
             /\ load_stats(save_stats(user_stats')) = user_stats']_vars

\* C13 witness: a ready process holds a mapping with user 12 beside a file
\* that is no JSON: a save has emptied the file and failed.
C13_Witness ==
    /\ proc = "ready"
    /\ stats_file = FileCorrupt
    /\ 12 \in DOMAIN user_stats
    /\ user_stats[12].join_count = 1

\* C14: for a user with no record and no open session each of the three
\* commands replies zero; after the first query has stored the user's
\* zero record, each of the three replies zero again at any later
\* instant and stores nothing more.
C14_UnknownUserRepliesZero ==
    Running =>
    \A u \in Users :
        ( /\ u \notin DOMAIN user_stats
          /\ u \notin DOMAIN voice_join_times
          /\ u \notin DOMAIN stream_start_times )
        => LET us1 == Materialize(user_stats, u)
           IN  /\ calltime_reply(u) = 0
               /\ streamtime_reply(u) = 0
               /\ get_user_stat(user_stats, u, "join_count") = 0
               /\ \A t \in Time :
                     /\ format_duration(calltime_total(us1, voice_join_times, u, t)) = 0
                     /\ format_duration(streamtime_total(us1, stream_start_times, u, t)) = 0
               /\ get_user_stat(us1, u, "join_count") = 0
               /\ Materialize(us1, u) = us1

\* C14 witness: the two handlers run so far were commands for one user,
\* unknown before; the second, calltime at a clock that is not zero,
\* replied zero and the store holds that user's zero record alone.
C14_Witness ==
    \E u \in Users :
        /\ proc = "ready"
        /\ handled = 2
        /\ ledger.events = 0
        /\ clock > 0
        /\ Answered("calltime", u)
        /\ out.at = clock
        /\ out.value = 0
        /\ user_stats = (u :> ZeroStats)

\* The join_count of u a restart would load from the file as it is.
Persisted(u) == Stat(load_stats(stats_file), u, "join_count")

\* C15: with the periodic save running, a join_count a ready process has
\* reached for a user is eventually in the file, unless the process ends
\* first.
C15_IncrementsEventuallySaved ==
    \A u \in Users, n \in 1..(MaxHandled + 1) :
        (proc = "ready" /\ JoinCount(u) >= n)
            ~> (proc = "down" \/ Persisted(u) >= n)

\* The dictionaries after the handler has run, in the current state, on
\* the event (u, bc, ac, bs, as).
AfterEvent(u, bc, ac, bs, as) ==
    on_voice_state_update(Mem(user_stats, voice_join_times, stream_start_times),
                          u, bc, ac, bs, as, clock)

\* Where a running process can take an event.
CanHandle == Running /\ handled < MaxHandled

\* C16: every event with before.self_stream false and after.self_stream
\* true, whatever its channel fields, ends without raising and leaves the
\* user an entry in stream_start_times with the instant of the event.
C16_StreamStartAlwaysOpens ==
    CanHandle =>
    \A u \in Users, bc \in ChannelOrNone, ac \in ChannelOrNone :
        LET m == AfterEvent(u, bc, ac, FALSE, TRUE)
        IN  /\ m.exc = ""
            /\ u \in DOMAIN m.sst
            /\ m.sst[u] = clock

\* C17: for a user with an entry in stream_start_times and any event: the
\* entry is removed, and stream_time grows by (now - start) once, exactly
\* when the event is a leave (after.channel None) or a stream stop with
\* after.channel not None, which no event is both; any other event adds
\* nothing to stream_time and leaves the user an entry; a stream stop with
\* before.channel and after.channel both None changes nothing at all.
C17_StreamClosedByOnePath ==
    CanHandle =>
    \A u \in DOMAIN stream_start_times, bc \in ChannelOrNone, ac \in ChannelOrNone,
       bs \in BOOLEAN, as \in BOOLEAN :
        LET m == AfterEvent(u, bc, ac, bs, as)
            leave == bc # None /\ ac = None
            stop == bs /\ ~as /\ ac # None
            credited == Stat(m.us, u, "stream_time") - StreamTime(u)
        IN  /\ ~(leave /\ stop)
            /\ (leave \/ stop) =>
                  /\ u \notin DOMAIN m.sst
                  /\ credited = clock - stream_start_times[u]
            /\ ~(leave \/ stop) =>
                  /\ u \in DOMAIN m.sst
                  /\ credited = 0
            /\ (bs /\ ~as /\ bc = None /\ ac = None) =>
                  /\ m.sst = stream_start_times
                  /\ m.vjt = voice_join_times
                  /\ m.us = user_stats
                  /\ m.exc = ""

\* C17 witness: of the two events handled the second was a stream stop
\* in a channel: the user's stream session is closed with a positive
\* credit while the call session is open and call_time is as loaded.
C17_Witness ==
    \E u \in Users :
        /\ ledger.events = 2
        /\ u \in DOMAIN voice_join_times
        /\ u \notin DOMAIN stream_start_times
        /\ ledger.stream_sum[u] > 0
        /\ StreamTime(u) = Base(u, "stream_time") + ledger.stream_sum[u]
        /\ CallTime(u) = Base(u, "call_time")
        /\ out = NoOut

\* C18: a process that has handled no event has no entry in either
\* dictionary, whatever an earlier process had open when it ended; every
\* entry a process holds was stored by an event that process handled; and
\* a leave or a stream-stop event for a user without entries changes
\* nothing and raises nothing.
C18_OpenSessionsEndWithTheProcess ==
    /\ (Running /\ ledger.events = 0) =>
          /\ voice_join_times = EmptyDict
          /\ stream_start_times = EmptyDict
    /\ Running =>
          /\ \A u \in DOMAIN voice_join_times :
                u \in DOMAIN ledger.call_open /\ voice_join_times[u] = ledger.call_open[u]
          /\ \A u \in DOMAIN stream_start_times : u \in DOMAIN ledger.stream_open
    /\ CanHandle =>
          \A u \in Users \ (DOMAIN voice_join_times \cup DOMAIN stream_start_times),
             bc \in Channels, ac \in ChannelOrNone, bs \in BOOLEAN :
              LET m == AfterEvent(u, bc, ac, bs, FALSE)
              IN  (ac = None \/ bs) =>
                      /\ m.us = user_stats
                      /\ m.vjt = voice_join_times
                      /\ m.sst = stream_start_times
                      /\ m.exc = ""

\* C18 witness: user 2, unknown to the first file, has the join an
\* earlier process counted and saved (that process handled nothing
\* else, so the session was open when it ended); this process loaded it,
\* has handled one event since, at a later instant, and holds no entry
\* and no credit.
C18_Witness ==
    /\ proc = "ready"
    /\ handled = 2
    /\ ledger.events = 1
    /\ clock > 0
    /\ Base(2, "join_count") = 1
    /\ ledger.joins[2] = 0
    /\ voice_join_times = EmptyDict
    /\ stream_start_times = EmptyDict
    /\ user_stats = load_stats(stats_file)
    /\ CallTime(2) = 0
    /\ out = NoOut

\* C19: the state an event leaves, which is the first a command or a save
\* can read after it, has the length of every entry the event removed
\* added to the matching committed field; so a duration command replies
\* no less after the close (at an instant t2 not before it) than it
\* replied before the close (at an instant t1 not after it).
C19_CloseIsSeenWhole ==
    CanHandle =>
    \A bc \in ChannelOrNone, ac \in ChannelOrNone, bs \in BOOLEAN, as \in BOOLEAN :
        /\ \A u \in DOMAIN voice_join_times :
              LET m == AfterEvent(u, bc, ac, bs, as)
              IN  u \notin DOMAIN m.vjt =>
                    /\ Stat(m.us, u, "call_time")
                           = CallTime(u) + (clock - voice_join_times[u])
                    /\ \A t1 \in Time, t2 \in Time :
                          (t1 <= clock /\ clock <= t2) =>
                              format_duration(calltime_total(m.us, m.vjt, u, t2))
                                 >= format_duration(calltime_total(
                                        user_stats, voice_join_times, u, t1))
        /\ \A u \in DOMAIN stream_start_times :
              LET m == AfterEvent(u, bc, ac, bs, as)
              IN  u \notin DOMAIN m.sst =>
                    /\ Stat(m.us, u, "stream_time")
                           = StreamTime(u) + (clock - stream_start_times[u])
                    /\ \A t1 \in Time, t2 \in Time :
                          (t1 <= clock /\ clock <= t2) =>
                              format_duration(streamtime_total(m.us, m.sst, u, t2))
                                 >= format_duration(streamtime_total(
                                        user_stats, stream_start_times, u, t1))

\* C19 witness: the second of two events closed a user's call session of
\* positive length; the state it left has no entry for the user and
\* calltime replies the loaded value plus that length.
C19_Witness ==
    \E u \in Users :
        /\ handled = 2
        /\ ledger.events = 2
        /\ u \notin DOMAIN voice_join_times
        /\ u \notin DOMAIN ledger.call_open
        /\ ledger.call_sum[u] > 0
        /\ calltime_reply(u) = Base(u, "call_time") + ledger.call_sum[u]

\* C20: a process that has not run load_stats (on_ready has not come)
\* completes no write that changes what a restart would load: a run that
\* ends before on_ready leaves the persisted statistics in place.
C20_NoSaveBeforeLoad ==
    [][(proc = "starting" /\ stats_file' # stats_file /\ stats_file' # FileCorrupt)
          => load_stats(stats_file') = load_stats(stats_file)]_vars

=============================================================================
